---- MODULE Spec2Model ----
(***************************************************************************)
(* Progress-streaming channel of the market-research application.          *)
(*                                                                         *)
(*   - Stream Client: apiService.streamResearch (services/apiService.js),  *)
(*     modelled character by character: the reader loop, the line buffer,  *)
(*     split('\n') / pop(), trim(), startsWith('data:'), slice(5),         *)
(*     JSON.parse, the progress callback and the final resolve / reject.   *)
(*   - Progress panel: TracePanel (components/TracePanel.js), the status   *)
(*     it shows for each of the four STEPS.                                *)
(*   - Stage Emitter, Pipeline Driver and Progress Stream Encoder: the     *)
(*     backend (api_backend.py) is not part of the sources at hand, so     *)
(*     these are modelled from sections 4.1 - 4.3 of the specification.    *)
(*                                                                         *)
(* A string is a sequence of one-character strings.  Only ASCII text is    *)
(* modelled, so TextDecoder.decode(value, {stream: true}) maps the bytes   *)
(* of a chunk to the same characters.                                      *)
(***************************************************************************)
EXTENDS Integers, Sequences, FiniteSets, TLC

VARIABLES
    emitted,      \* frames the server has written so far (oldest first)
    wire,         \* characters written by the server and not yet read
    connClosed,   \* the server has closed the response body
    truncated,    \* the body ended before everything written was read
    driver,       \* Pipeline Driver state
    stageStatus,  \* server side status of each stage
    ticks,        \* number of tick() calls made so far in this run
    responseOk,   \* response.ok of the fetch() response
    pc,           \* position of the streamResearch call
    buffer,       \* `buffer` of streamResearch
    finalResult,  \* `finalResult` of streamResearch
    onProgress,   \* behaviour of the caller supplied callback
    delivered,    \* arguments of the onProgress invocations, in order
    warnings,     \* number of console.warn calls made by streamResearch
    received,     \* every character returned by reader.read() so far
    linesSeen,    \* every line the for-loop has iterated over, in order
    outcome,      \* how the promise settled
    steps,        \* progress panel state: stage -> its current event
    second,       \* a second streamResearch call running at the same time
    rendered,     \* what TracePanel has rendered
    query,        \* ResearchInputScreen: text of the query field
    loading,      \* ResearchInputScreen: a request is being executed
    error,        \* ResearchInputScreen: message of the error alert, or Null
    submits,      \* handleSubmit invocations so far
    requests,     \* executeResearch calls so far (oldest first)
    currentScreen,    \* App: 'input' or 'results'
    researchResults,  \* App: the payload held for the results screen
    snackbar,         \* App: the notification
    backendStatus,    \* App: 'checking', 'connected' or 'disconnected'
    healthCheck,      \* App: state of the health check started on mount
    expandedSection,  \* ResearchResultsScreen: the open accordion panel
    downloaded        \* ResearchResultsScreen: content of the last download

vars == <<emitted, wire, connClosed, truncated, driver, stageStatus, ticks,
          responseOk, pc, buffer, finalResult, onProgress, delivered,
          warnings, received, linesSeen, outcome, steps, second, rendered,
          query, loading, error, submits, requests, currentScreen,
          researchResults, snackbar, backendStatus, healthCheck,
          expandedSection, downloaded>>

serverVars == <<driver, stageStatus, ticks>>
clientVars == <<pc, buffer, finalResult, delivered, warnings, received,
                linesSeen, outcome, steps>>
streamVars == <<emitted, wire, connClosed, truncated, serverVars, responseOk,
                onProgress, clientVars>>
inputVars == <<query, loading, error, submits, requests>>
appVars == <<currentScreen, researchResults, snackbar, backendStatus,
             healthCheck>>
resultsVars == <<expandedSection, downloaded>>
uiVars == <<inputVars, appVars, resultsVars>>
otherVars == <<second, rendered, uiVars>>

-----------------------------------------------------------------------------
(* Bounds *)

MaxFrames == 3      \* frames of a stream drawn at Init (client specifications)
MaxTicks == 2       \* tick() calls of one pipeline run
MaxIter == 2        \* maxIterations reported by a stage
MaxSubmits == 2     \* handleSubmit invocations of one session
MaxPairFrames == 1  \* frames of the first stream when two calls run together
MaxPanelIter == 3   \* iteration and maxIterations of a panel entry
MaxWideFrames == 2  \* frames of a stream that also carries comments and empty results
MaxInFlight == 42   \* characters written and not yet read (send window)

-----------------------------------------------------------------------------
(* Characters and strings *)

LF == "\n"
Whitespace == {" ", "\r", "\t", LF}

Marker == <<"d", "a", "t", "a", ":">>
MarkerLen == 5

\* String.prototype.startsWith
StartsWith(s, prefix) ==
    /\ Len(s) >= Len(prefix)
    /\ SubSeq(s, 1, Len(prefix)) = prefix

\* String.prototype.slice(n), n >= 0
Slice(s, n) == SubSeq(s, n + 1, Len(s))

\* String.prototype.trim
RECURSIVE TrimLeft(_)
TrimLeft(s) ==
    IF s # <<>> /\ Head(s) \in Whitespace THEN TrimLeft(Tail(s)) ELSE s

RECURSIVE TrimRight(_)
TrimRight(s) ==
    IF s # <<>> /\ s[Len(s)] \in Whitespace
    THEN TrimRight(SubSeq(s, 1, Len(s) - 1))
    ELSE s

Trim(s) == TrimRight(TrimLeft(s))

\* String.prototype.split('\n'): always at least one element
RECURSIVE SplitFrom(_, _, _)
SplitFrom(s, start, i) ==
    IF i > Len(s) THEN <<SubSeq(s, start, Len(s))>>
    ELSE IF s[i] = LF
         THEN <<SubSeq(s, start, i - 1)>> \o SplitFrom(s, i + 1, i + 1)
         ELSE SplitFrom(s, start, i + 1)

Split(s) == SplitFrom(s, 1, 1)

-----------------------------------------------------------------------------
(* Events and their JSON text *)

\* keys of STEPS of the progress panel, in display order
STEPS == <<"research", "analyze", "strategize", "compile">>

Stages == {STEPS[i] : i \in 1..Len(STEPS)}
Statuses == {"pending", "running", "completed", "error"}

Undefined == "undefined"      \* a property the object does not have
NoNumber == 0 - 1             \* a numeric property the object does not have
Null == "null"

R1 == "payload1"
R2 == "payload2"
Payloads == {R1, R2}

ProgressEvent(stage, status, iteration, maxIterations) ==
    [stage |-> stage, status |-> status, iteration |-> iteration,
     maxIterations |-> maxIterations, result |-> Undefined]

DoneEvent(result) ==
    [stage |-> Undefined, status |-> "done", iteration |-> NoNumber,
     maxIterations |-> NoNumber, result |-> result]

\* the object {} : no property at all
EmptyObject ==
    [stage |-> Undefined, status |-> Undefined, iteration |-> NoNumber,
     maxIterations |-> NoNumber, result |-> Undefined]

\* JSON.parse threw
SyntaxError == [EmptyObject EXCEPT !.status = "SyntaxError"]

\* JSON.parse returned null: reading event.status throws a TypeError
JSONNull == [EmptyObject EXCEPT !.status = "TypeError"]
NullText == <<"n", "u", "l", "l">>

TerminalEvent(payload) == DoneEvent(payload)

IsTerminal(e) == e.status = "done" /\ e.result \in Payloads
IsProgress(e) == e.stage \in Stages /\ e.status \in Statuses

StageChar == [s \in Stages |->
    CASE s = "research" -> "r" [] s = "analyze" -> "a"
      [] s = "strategize" -> "s" [] s = "compile" -> "c"]

StatusChar == [t \in Statuses |->
    CASE t = "pending" -> "p" [] t = "running" -> "u"
      [] t = "completed" -> "k" [] t = "error" -> "e"]

Digits == <<"0", "1", "2", "3", "4", "5", "6", "7", "8", "9">>
DigitChar(n) == Digits[n + 1]
DigitChars == {Digits[i] : i \in 1..Len(Digits)}
DigitValue(c) == CHOOSE n \in 0..9 : Digits[n + 1] = c

ResultChar(r) == CASE r = R1 -> "X" [] r = R2 -> "Y" [] r = Null -> "0"
ResultChars == {"X", "Y", "0"}
ResultValue(c) == CASE c = "X" -> R1 [] c = "Y" -> R2 [] c = "0" -> Null

\* Compact object notation of one event (the serialisation the encoder uses)
Serialize(e) ==
    IF e.status = "done"
    THEN <<"{", "D", ResultChar(e.result), "}">>
    ELSE <<"{", StageChar[e.stage], StatusChar[e.status],
           DigitChar(e.iteration), DigitChar(e.maxIterations), "}">>

\* JSON.parse restricted to the notation above; anything else throws
JSONParse(s) ==
    IF /\ Len(s) = 6 /\ s[1] = "{" /\ s[6] = "}"
       /\ s[2] \in {StageChar[x] : x \in Stages}
       /\ s[3] \in {StatusChar[x] : x \in Statuses}
       /\ s[4] \in DigitChars /\ s[5] \in DigitChars
    THEN ProgressEvent(CHOOSE x \in Stages : StageChar[x] = s[2],
                       CHOOSE x \in Statuses : StatusChar[x] = s[3],
                       DigitValue(s[4]), DigitValue(s[5]))
    ELSE IF /\ Len(s) = 4 /\ s[1] = "{" /\ s[2] = "D"
            /\ s[3] \in ResultChars /\ s[4] = "}"
    THEN DoneEvent(ResultValue(s[3]))
    ELSE IF s = NullText THEN JSONNull
    ELSE SyntaxError

\* JavaScript truthiness of event.result
Truthy(v) == v \notin {Null, Undefined}

-----------------------------------------------------------------------------
(* Progress Stream Encoder: one frame per event *)

\* a data frame whose payload is cut short
Malformed == [EmptyObject EXCEPT !.status = "malformed"]
MalformedText == <<"{", "r", "u">>

FrameText(item) == IF item = Malformed THEN MalformedText ELSE Serialize(item)

\* marker, event text, blank-line terminator
EncodeFrame(item) == Marker \o <<" ">> \o FrameText(item) \o <<LF, LF>>

RECURSIVE EncodeStream(_)
EncodeStream(items) ==
    IF items = <<>> THEN <<>>
    ELSE EncodeFrame(Head(items)) \o EncodeStream(Tail(items))

\* the events a receiver is expected to decode from a sequence of frames
RECURSIVE ValidEvents(_)
ValidEvents(items) ==
    IF items = <<>> THEN <<>>
    ELSE IF Head(items) = Malformed THEN ValidEvents(Tail(items))
    ELSE <<Head(items)>> \o ValidEvents(Tail(items))

-----------------------------------------------------------------------------
(* Stream Client: apiService.streamResearch *)

CallbackModes == {"ok", "throws", "absent"}

NoOutcome == [kind |-> "pending", value |-> Undefined]
Resolved(v) == [kind |-> "resolved", value |-> v]
Rejected(msg) == [kind |-> "rejected", value |-> msg]

NoResultError == "Stream ended without a final result"
ReadFailure == "reader.read() failed"
ErrorBody == "error body"
StatusMessage == "Stream request failed: status"

\* state threaded through the for-loop over the lines of one chunk
LoopState(fr, dl, w) == [finalResult |-> fr, delivered |-> dl, warnings |-> w]

\* the result looked for on completed events instead of the done event
RememberResultOnCompleted(fr, event) ==
    IF event.status = "completed" /\ Truthy(event.result) THEN event.result ELSE fr

\* the result of every done event taken, an empty one too
RememberResultAnyDone(fr, event) ==
    IF event.status = "done" THEN event.result ELSE fr

\* the guard of lines 296-298 left out
RememberResultUnconditional(fr, event) == event.result

\* lines 296-298: remember the result of a done event
RememberResult(fr, event) ==
    IF event.status = "done" /\ Truthy(event.result) THEN event.result ELSE fr

\* line 292: only data lines are events
IsDataLine(trimmed) == StartsWith(trimmed, Marker)

\* an event with status error thrown inside the try block, hence swallowed
ProcessLineThrowsOnError(st, line, cb) ==
    LET trimmed == Trim(line) IN
    IF ~IsDataLine(trimmed) THEN st
    ELSE LET event == JSONParse(Trim(Slice(trimmed, MarkerLen))) IN
         IF event \in {SyntaxError, JSONNull} \/ event.status = "error"
         THEN LoopState(st.finalResult, st.delivered, st.warnings + 1)
         ELSE LoopState(RememberResult(st.finalResult, event),
                        IF cb = "absent" THEN st.delivered
                        ELSE Append(st.delivered, event),
                        IF cb = "throws" THEN st.warnings + 1 ELSE st.warnings)

\* the callback invoked before the result is remembered
ProcessLineCallbackFirst(st, line, cb) ==
    LET trimmed == Trim(line) IN
    IF ~IsDataLine(trimmed) THEN st
    ELSE LET event == JSONParse(Trim(Slice(trimmed, MarkerLen))) IN
         IF event \in {SyntaxError, JSONNull}
         THEN LoopState(st.finalResult, st.delivered, st.warnings + 1)
         ELSE LET fr == RememberResult(st.finalResult, event) IN
              CASE cb = "ok" ->
                     LoopState(fr, Append(st.delivered, event), st.warnings)
                [] cb = "throws" ->
                     LoopState(st.finalResult, Append(st.delivered, event),
                               st.warnings + 1)
                [] cb = "absent" ->
                     LoopState(fr, st.delivered, st.warnings)

\* the loop body skipped once a result is remembered
ProcessLineStopsAfterDone(st, line, cb) ==
    LET trimmed == Trim(line) IN
    IF ~IsDataLine(trimmed) \/ Truthy(st.finalResult) THEN st
    ELSE LET event == JSONParse(Trim(Slice(trimmed, MarkerLen))) IN
         IF event \in {SyntaxError, JSONNull}
         THEN LoopState(st.finalResult, st.delivered, st.warnings + 1)
         ELSE LET fr == RememberResult(st.finalResult, event) IN
              CASE cb = "ok" ->
                     LoopState(fr, Append(st.delivered, event), st.warnings)
                [] cb = "throws" ->
                     LoopState(fr, Append(st.delivered, event), st.warnings + 1)
                [] cb = "absent" ->
                     LoopState(fr, st.delivered, st.warnings)

\* lines 291-304: the body of the for-loop for one line
ProcessLine(st, line, cb) ==
    LET trimmed == Trim(line) IN
    IF ~IsDataLine(trimmed) THEN st
    ELSE LET event == JSONParse(Trim(Slice(trimmed, MarkerLen))) IN
         IF event \in {SyntaxError, JSONNull}
         THEN LoopState(st.finalResult, st.delivered, st.warnings + 1)
         ELSE LET fr == RememberResult(st.finalResult, event) IN
              CASE cb = "ok" ->
                     LoopState(fr, Append(st.delivered, event), st.warnings)
                [] cb = "throws" ->
                     LoopState(fr, Append(st.delivered, event), st.warnings + 1)
                [] cb = "absent" ->
                     LoopState(fr, st.delivered, st.warnings)

\* the lines of a chunk visited last to first
RECURSIVE ProcessLinesReversed(_, _, _)
ProcessLinesReversed(st, lines, cb) ==
    IF lines = <<>> THEN st
    ELSE ProcessLinesReversed(ProcessLine(st, lines[Len(lines)], cb),
                              SubSeq(lines, 1, Len(lines) - 1), cb)

\* try / catch around the whole for-loop: a parse failure ends the loop
RECURSIVE ProcessLinesAbort(_, _, _)
ProcessLinesAbort(st, lines, cb) ==
    IF lines = <<>> THEN st
    ELSE LET next == ProcessLine(st, Head(lines), cb) IN
         IF next.warnings > st.warnings THEN next
         ELSE ProcessLinesAbort(next, Tail(lines), cb)

\* lines 290-305: for (const line of lines)
RECURSIVE ProcessLines(_, _, _)
ProcessLines(st, lines, cb) ==
    IF lines = <<>> THEN st
    ELSE ProcessLines(ProcessLine(st, Head(lines), cb), Tail(lines), cb)

\* the buffer emptied after every chunk
LastCleared(lines) == <<>>

\* lines 286-288: lines = buffer.split('\n'); buffer = lines.pop()
Last(lines) == lines[Len(lines)]
AllButLast(lines) == SubSeq(lines, 1, Len(lines) - 1)

\* the loop also left as soon as a result is known
LoopBreaksOnResult(done, fr) == done \/ Truthy(fr)

\* the loop given up as soon as a read has nothing to return
LoopBreaksWhenIdle(done, fr) == done \/ wire = <<>>

\* line 281: if (done) break
LoopBreaks(done, fr) == done

\* the check of line 308 left out
SettleAlwaysResolves(fr) == Resolved(fr)

\* the check of line 308 written as finalResult === undefined
SettleUndefinedCheck(fr) ==
    IF fr = Undefined THEN Rejected(NoResultError) ELSE Resolved(fr)

\* lines 308-311: the value the call settles with after the loop
Settle(fr) == IF ~Truthy(fr) THEN Rejected(NoResultError) ELSE Resolved(fr)

\* the panel state is updated on every callback invocation
RECURSIVE UpdateSteps(_, _)
UpdateSteps(st, events) ==
    IF events = <<>> THEN st
    ELSE LET e == Head(events) IN
         UpdateSteps(IF e.stage \in Stages THEN [st EXCEPT ![e.stage] = e] ELSE st,
                     Tail(events))

NoSteps == [s \in Stages |-> EmptyObject]

\* every status other than running shown as pending
ShownStatusRunningOnly(st, key) ==
    IF st[key].status = "running" THEN "running" ELSE "pending"

\* TracePanel, lines 98-99: the status shown for one step
ShownStatus(st, key) ==
    LET stepData == st[key] IN
    IF stepData.status = Undefined THEN "pending" ELSE stepData.status

\* lines 263-272: fetch() answered
FetchOk ==
    /\ pc = "fetch"
    /\ responseOk
    /\ pc' = "reading"
    /\ UNCHANGED <<emitted, wire, connClosed, truncated, serverVars, responseOk,
                   buffer, finalResult, onProgress, delivered, warnings,
                   received, linesSeen, outcome, steps>>
    /\ UNCHANGED otherVars

\* response.ok not looked at: the body of the error response is read
FetchNotOkIgnored ==
    /\ pc = "fetch"
    /\ ~responseOk
    /\ pc' = "reading"
    /\ UNCHANGED <<emitted, wire, connClosed, truncated, serverVars, responseOk,
                   buffer, finalResult, onProgress, delivered, warnings,
                   received, linesSeen, outcome, steps>>
    /\ UNCHANGED otherVars

FetchNotOk ==
    /\ pc = "fetch"
    /\ ~responseOk
    /\ \E errorBody \in {"", ErrorBody} :
          outcome' = Rejected(IF errorBody = "" THEN StatusMessage ELSE errorBody)
    /\ pc' = "settled"
    /\ wire' = <<>>
    /\ UNCHANGED <<emitted, connClosed, truncated, serverVars, responseOk,
                   buffer, finalResult, onProgress, delivered, warnings,
                   received, linesSeen, steps>>
    /\ UNCHANGED otherVars

\* buffer = decoder.decode(value) in place of +=
AppendedReplaces(buf, value) == value

\* line 283: buffer += decoder.decode(value, { stream: true })
Appended(buf, value) == buf \o value

\* lines 283-305: what one chunk does to the state of the call
ChunkStep(n) ==
    /\ n \in 0..Len(wire)
    /\ \E value \in {SubSeq(wire, 1, n)} :
       \E lines \in {Split(Appended(buffer, value))} :
       \E st \in {ProcessLines(LoopState(finalResult, delivered, warnings),
                               AllButLast(lines), onProgress)} :
          /\ wire' = Slice(wire, n)
          /\ buffer' = Last(lines)
          /\ finalResult' = st.finalResult
          /\ delivered' = st.delivered
          /\ warnings' = st.warnings
          /\ received' = received \o value
          /\ linesSeen' = linesSeen \o AllButLast(lines)
          /\ steps' = UpdateSteps(steps, SubSeq(st.delivered, Len(delivered) + 1,
                                                Len(st.delivered)))
    /\ UNCHANGED <<emitted, connClosed, truncated, serverVars, responseOk,
                   onProgress, outcome>>
    /\ UNCHANGED otherVars

\* lines 280-305: one iteration of the reader loop that returned a chunk
ReadChunk(n) ==
    /\ pc = "reading"
    /\ ChunkStep(n)
    /\ UNCHANGED pc

\* the body arrives as exactly two chunks: the first n characters ...
ReadPrefix(n) ==
    /\ pc = "reading"
    /\ ChunkStep(n)
    /\ pc' = "suffix"

\* ... and the rest
ReadSuffix ==
    /\ pc = "suffix"
    /\ ChunkStep(Len(wire))
    /\ pc' = "reading"

\* what is left in the buffer handled as a last line before settling
ReadDoneFlushes ==
    /\ pc = "reading"
    /\ LoopBreaks(connClosed /\ wire = <<>>, finalResult)
    /\ \E st \in {ProcessLine(LoopState(finalResult, delivered, warnings),
                              buffer, onProgress)} :
          /\ finalResult' = st.finalResult
          /\ delivered' = st.delivered
          /\ warnings' = st.warnings
          /\ outcome' = Settle(st.finalResult)
    /\ pc' = "settled"
    /\ UNCHANGED <<emitted, wire, connClosed, truncated, serverVars, responseOk,
                   buffer, onProgress, received, linesSeen, steps>>
    /\ UNCHANGED otherVars

\* lines 280-281 and 308-311: reader.read() reported done
ReadDone ==
    /\ pc = "reading"
    /\ LoopBreaks(connClosed /\ wire = <<>>, finalResult)
    /\ outcome' = Settle(finalResult)
    /\ pc' = "settled"
    /\ UNCHANGED <<emitted, wire, connClosed, truncated, serverVars, responseOk,
                   buffer, finalResult, onProgress, delivered, warnings,
                   received, linesSeen, steps>>
    /\ UNCHANGED otherVars

\* line 280: reader.read() rejected (transport failure)
ReadError ==
    /\ pc = "reading"
    /\ outcome' = Rejected(ReadFailure)
    /\ pc' = "settled"
    /\ wire' = <<>>
    /\ truncated' = (truncated \/ wire # <<>>)
    /\ UNCHANGED <<emitted, connClosed, serverVars, responseOk, buffer,
                   finalResult, onProgress, delivered, warnings, received,
                   linesSeen, steps>>
    /\ UNCHANGED otherVars

\* the body ends here: what was written after this point never arrives
Truncate ==
    /\ pc = "reading"
    /\ connClosed
    /\ wire # <<>>
    /\ wire' = <<>>
    /\ truncated' = TRUE
    /\ UNCHANGED <<emitted, connClosed, serverVars, responseOk, clientVars,
                   onProgress>>
    /\ UNCHANGED otherVars

-----------------------------------------------------------------------------
(* Client specification: an arbitrary finished stream, arbitrarily chunked *)

Ev1 == ProgressEvent("research", "running", 1, 2)
Ev2 == ProgressEvent("research", "completed", 0, 0)
Term1 == TerminalEvent(R1)
Term2 == TerminalEvent(R2)

ClientItems == {Ev1, Ev2, Term1, Term2, Malformed}

RECURSIVE SeqsUpTo(_, _)
SeqsUpTo(S, n) ==
    IF n = 0 THEN {<<>>}
    ELSE LET shorter == SeqsUpTo(S, n - 1) IN
         shorter \cup {Append(q, x) : q \in {r \in shorter : Len(r) = n - 1}, x \in S}

-----------------------------------------------------------------------------
(* Initial state of the screens, the progress panel and the second call *)

\* ResearchResultsScreen, line 35: no accordion panel is open
NoSection == "false"

\* App, line 13: the notification before anything was shown
NoSnackbar == [open |-> FALSE, message |-> "", severity |-> "info"]

\* ResearchInputScreen, lines 32-40
InitInputScreen ==
    /\ query = <<>>
    /\ loading = FALSE
    /\ error = Null

\* App, lines 11-14, and ResearchResultsScreen, line 35
InitUI ==
    /\ InitInputScreen
    /\ submits = 0
    /\ requests = <<>>
    /\ currentScreen = "input"
    /\ researchResults = Null
    /\ snackbar = NoSnackbar
    /\ backendStatus = "checking"
    /\ healthCheck = "pending"
    /\ expandedSection = NoSection
    /\ downloaded = <<>>

\* state of a streamResearch call: its stream and the locals of lines 276-277
Call(stream, at) ==
    [body |-> stream, wire |-> stream, pc |-> at, buffer |-> <<>>,
     finalResult |-> Null, delivered |-> <<>>, warnings |-> 0,
     outcome |-> NoOutcome]

\* no second call is made
NoCall == Call(<<>>, "none")

\* TracePanel, line 53: nothing is rendered while the panel is not active
NoRow ==
    [status |-> Undefined, iteration |-> NoNumber, maxIterations |-> NoNumber,
     progress |-> NoNumber, icon |-> Undefined, color |-> Undefined,
     caption |-> Undefined, ratio |-> <<>>, bar |-> NoNumber]

NoRows == [s \in Stages |-> NoRow]

RenderedNothing == [visible |-> FALSE, minimized |-> FALSE, rows |-> NoRows]

InitOther ==
    /\ InitUI
    /\ second = NoCall
    /\ rendered = RenderedNothing

InitClientState ==
    /\ pc = "fetch"
    /\ buffer = <<>>
    /\ finalResult = Null
    /\ delivered = <<>>
    /\ warnings = 0
    /\ received = <<>>
    /\ linesSeen = <<>>
    /\ outcome = NoOutcome
    /\ steps = NoSteps

InitClient ==
    /\ emitted \in SeqsUpTo(ClientItems, MaxFrames)
    /\ wire = EncodeStream(emitted)
    /\ connClosed = TRUE
    /\ truncated = FALSE
    /\ driver = "done"
    /\ stageStatus = [s \in Stages |-> "completed"]
    /\ ticks = 0
    /\ responseOk \in BOOLEAN
    /\ onProgress = "ok"
    /\ InitClientState
    /\ InitOther

\* what the call does when the same text arrives as one single chunk
WholeRun(text, cb) ==
    LET lines == Split(Appended(<<>>, text))
        st == ProcessLines(LoopState(Null, <<>>, 0), AllButLast(lines), cb)
    IN [delivered |-> st.delivered, outcome |-> Settle(st.finalResult)]

NextClient ==
    \/ FetchOk
    \/ FetchNotOk
    \/ \E n \in 0..Len(wire) : ReadChunk(n)
    \/ ReadDone
    \/ ReadError
    \/ Truncate

SpecClient == InitClient /\ [][NextClient]_vars

-----------------------------------------------------------------------------
(* Split specification: a finished stream fed as prefix and suffix *)

NextSplit ==
    \/ FetchOk
    \/ FetchNotOk
    \/ \E n \in 0..Len(wire) : ReadPrefix(n)
    \/ ReadSuffix
    \/ ReadDone

SpecSplit == InitClient /\ [][NextSplit]_vars

-----------------------------------------------------------------------------
(* Stage Emitter, Pipeline Driver and encoder output (specification 4.1-4.3) *)

\* the state the driver must be in before stage s may begin
Before(s) ==
    CASE s = "research" -> "pending" [] s = "analyze" -> "research"
      [] s = "strategize" -> "analyze" [] s = "compile" -> "strategize"

\* tick() calls made so far for stage s
TicksOf(s) ==
    Cardinality({i \in 1..Len(emitted) :
                    emitted[i].stage = s /\ emitted[i].iteration > 0})

\* every emitter call pushes exactly one event; the encoder writes its frame
\* (the write waits while the send window is full)
Emit(e) ==
    /\ ~connClosed
    /\ Len(wire) + Len(EncodeFrame(e)) <= MaxInFlight
    /\ emitted' = Append(emitted, e)
    /\ wire' = wire \o EncodeFrame(e)

\* begin(stage)
Begin(s) ==
    /\ responseOk
    /\ driver = Before(s)
    /\ IF driver = "pending" THEN TRUE ELSE stageStatus[driver] = "completed"
    /\ Emit(ProgressEvent(s, "running", 0, 0))
    /\ driver' = s
    /\ stageStatus' = [stageStatus EXCEPT ![s] = "running"]
    /\ UNCHANGED <<connClosed, truncated, ticks, responseOk, clientVars, onProgress>>
    /\ UNCHANGED otherVars

\* tick(stage, iteration, maxIterations)
Tick(s) ==
    /\ driver = s
    /\ stageStatus[s] = "running"
    /\ ticks < MaxTicks
    /\ Emit(ProgressEvent(s, "running", TicksOf(s) + 1, MaxIter))
    /\ ticks' = ticks + 1
    /\ UNCHANGED <<connClosed, truncated, driver, stageStatus, responseOk,
                   clientVars, onProgress>>
    /\ UNCHANGED otherVars

\* complete(stage): the agent call of the stage returned
Complete(s) ==
    /\ driver = s
    /\ stageStatus[s] = "running"
    /\ Emit(ProgressEvent(s, "completed", 0, 0))
    /\ stageStatus' = [stageStatus EXCEPT ![s] = "completed"]
    /\ UNCHANGED <<connClosed, truncated, driver, ticks, responseOk, clientVars,
                   onProgress>>
    /\ UNCHANGED otherVars

\* fail(stage): the agent call of the stage raised
Fail(s) ==
    /\ driver = s
    /\ stageStatus[s] = "running"
    /\ Emit(ProgressEvent(s, "error", 0, 0))
    /\ stageStatus' = [stageStatus EXCEPT ![s] = "error"]
    /\ driver' = "error"
    /\ UNCHANGED <<connClosed, truncated, ticks, responseOk, clientVars, onProgress>>
    /\ UNCHANGED otherVars

\* all four stages completed: the payload goes out in the TerminalEvent
Finish ==
    /\ driver = "compile"
    /\ stageStatus["compile"] = "completed"
    /\ \E payload \in Payloads : Emit(TerminalEvent(payload))
    /\ driver' = "done"
    /\ UNCHANGED <<connClosed, truncated, stageStatus, ticks, responseOk,
                   clientVars, onProgress>>
    /\ UNCHANGED otherVars

\* the connection closed while the pipeline is still running
ServerCloseAnytime ==
    /\ ~connClosed
    /\ connClosed' = TRUE
    /\ UNCHANGED <<emitted, wire, truncated, serverVars, responseOk, clientVars,
                   onProgress>>
    /\ UNCHANGED otherVars

\* the encoder closes the connection
ServerClose ==
    /\ driver \in {"done", "error"}
    /\ ~connClosed
    /\ connClosed' = TRUE
    /\ UNCHANGED <<emitted, wire, truncated, serverVars, responseOk, clientVars,
                   onProgress>>
    /\ UNCHANGED otherVars

Init ==
    /\ emitted = <<>>
    /\ wire = <<>>
    /\ connClosed = FALSE
    /\ truncated = FALSE
    /\ driver = "pending"
    /\ stageStatus = [s \in Stages |-> "pending"]
    /\ ticks = 0
    /\ responseOk \in BOOLEAN
    /\ onProgress = "ok"
    /\ InitClientState
    /\ InitOther

Next ==
    \/ \E s \in Stages : Begin(s)
    \/ \E s \in Stages : Tick(s)
    \/ \E s \in Stages : Complete(s)
    \/ \E s \in Stages : Fail(s)
    \/ Finish
    \/ ServerClose
    \/ FetchOk
    \/ FetchNotOk
    \/ \E n \in 0..Len(wire) : ReadChunk(n)
    \/ ReadDone
    \/ ReadError

Spec == Init /\ [][Next]_vars

-----------------------------------------------------------------------------
(* Properties of the Stream Client *)

IsPrefix(a, b) == Len(a) <= Len(b) /\ a = SubSeq(b, 1, Len(a))

First(items, n) == SubSeq(items, 1, n)

\* progress frames followed by one TerminalEvent frame
WellFormedStream(items) ==
    /\ Len(items) >= 1
    /\ \A i \in 1..(Len(items) - 1) : IsProgress(items[i])
    /\ IsTerminal(items[Len(items)])

\* the client has read everything the server wrote
StreamConsumed == received = EncodeStream(emitted)

\* reader.read() reported done and the call settled after the loop
NormalEnd == pc = "settled" /\ responseOk /\ outcome # Rejected(ReadFailure)

MalformedCount(items) ==
    Cardinality({i \in 1..Len(items) : items[i] = Malformed})

HasTerminal(events) == \E i \in 1..Len(events) : IsTerminal(events[i])

LastTerminal(events) ==
    events[CHOOSE i \in 1..Len(events) :
              /\ IsTerminal(events[i])
              /\ \A j \in (i + 1)..Len(events) : ~IsTerminal(events[j])]

\* frames whose blank-line terminator has been received
FramesTerminated ==
    Cardinality({n \in 1..Len(emitted) :
                    Len(received) >= Len(EncodeStream(First(emitted, n)))})

\* frames whose data line, with the newline ending it, has been received
LinesTerminated ==
    Cardinality({n \in 1..Len(emitted) :
                    Len(received) >= Len(EncodeStream(First(emitted, n))) - 1})

RECURSIVE JoinLines(_)
JoinLines(lines) ==
    IF lines = <<>> THEN <<>>
    ELSE Head(lines) \o <<LF>> \o JoinLines(Tail(lines))

HasNewline(s) == \E i \in 1..Len(s) : s[i] = LF

\* C1: for a stream of well-formed ProgressEvent frames followed by one
\* TerminalEvent frame, the callback invocations are at every moment a prefix
\* of the emitted events, and are exactly the emitted events, in emission
\* order, once the whole stream has been read, however it was cut into chunks.
C1_OrderPreserved ==
    WellFormedStream(emitted) =>
        /\ IsPrefix(delivered, emitted)
        /\ StreamConsumed => delivered = emitted

C1_Witness ==
    /\ WellFormedStream(emitted)
    /\ Len(emitted) >= 3
    /\ emitted[1] # emitted[2]
    /\ NormalEnd
    /\ StreamConsumed
    /\ delivered = emitted

\* C2: a stream fed as two chunks (prefix, suffix), for every split offset,
\* gives the same callback invocations and the same final outcome as the
\* stream fed as one single chunk.
C2_SplitSafe ==
    (pc = "settled" /\ responseOk) =>
        /\ delivered = WholeRun(received, onProgress).delivered
        /\ outcome = WholeRun(received, onProgress).outcome

C2_Witness ==
    /\ pc = "settled"
    /\ responseOk
    /\ StreamConsumed
    /\ Len(delivered) = 3
    /\ outcome.kind = "resolved"

\* C3: when the connection ends after N valid ProgressEvent frames and no
\* TerminalEvent frame was received, the call rejects with the 'stream ended
\* without a result' error and the N events were delivered to the callback.
C3_NoResultRejects ==
    \A n \in 0..Len(emitted) :
        ( /\ NormalEnd
          /\ received = EncodeStream(First(emitted, n))
          /\ \A i \in 1..n : IsProgress(emitted[i]) )
        => /\ outcome = Rejected(NoResultError)
           /\ delivered = First(emitted, n)

C3_Witness ==
    /\ NormalEnd
    /\ truncated
    /\ Len(emitted) = 3
    /\ IsTerminal(emitted[3])
    /\ received = EncodeStream(First(emitted, 2))
    /\ delivered = First(emitted, 2)
    /\ IsProgress(emitted[1]) /\ IsProgress(emitted[2])
    /\ outcome = Rejected(NoResultError)

\* C4: if a TerminalEvent frame was decoded at any point of the stream, then
\* once the connection has ended the call is resolved, and the resolved value
\* is the result of that TerminalEvent (of the last one decoded, should a
\* stream carry more than one).
C4_ResolvesWithTerminalResult ==
    (NormalEnd /\ HasTerminal(delivered)) =>
        outcome = Resolved(LastTerminal(delivered).result)

C4_Witness ==
    /\ NormalEnd
    /\ Len(delivered) = 3
    /\ IsTerminal(delivered[1])
    /\ IsProgress(delivered[2]) /\ IsProgress(delivered[3])
    /\ outcome = Resolved(delivered[1].result)

\* C5: a frame whose payload fails to parse is logged and skipped; the valid
\* frames before and after it are delivered in order, and a later
\* TerminalEvent still makes the call resolve.
C5_MalformedSkipped ==
    /\ IsPrefix(delivered, ValidEvents(emitted))
    /\ StreamConsumed =>
          /\ delivered = ValidEvents(emitted)
          /\ warnings = MalformedCount(emitted)
    /\ (NormalEnd /\ StreamConsumed /\ HasTerminal(ValidEvents(emitted))) =>
          outcome.kind = "resolved"

C5_Witness ==
    /\ emitted = <<Ev1, Malformed, Term1>>
    /\ NormalEnd
    /\ delivered = <<Ev1, Term1>>
    /\ warnings = 1
    /\ outcome = Resolved(R1)

\* C6: after a TerminalEvent was decoded the call stays unsettled while the
\* connection is open or has unread data; it settles after the loop only
\* once the reader reported the end of the connection.
C6_DrainsBeforeSettling ==
    /\ (pc = "reading" /\ Truthy(finalResult)) => outcome = NoOutcome
    /\ outcome.kind = "resolved" => (connClosed /\ wire = <<>>)
    /\ outcome = Rejected(NoResultError) => (connClosed /\ wire = <<>>)

C6_Witness ==
    /\ pc = "reading"
    /\ Truthy(finalResult)
    /\ HasTerminal(delivered)
    /\ ~connClosed
    /\ outcome = NoOutcome

\* C7 as stated: an event is delivered only once the blank-line terminator
\* of its frame has arrived.
C7_AsStated == Len(delivered) <= FramesTerminated

\* C7: every chunk is appended to the buffer and every complete line is
\* extracted, a data line being complete as soon as the newline ending it has
\* arrived; the trailing partial line stays in the buffer, is not delivered,
\* and is delivered exactly once after a later chunk completes it.
C7_LineReassembly ==
    /\ received = JoinLines(linesSeen) \o buffer
    /\ ~HasNewline(buffer)
    /\ \A i \in 1..Len(linesSeen) : ~HasNewline(linesSeen[i])
    /\ delivered = ValidEvents(First(emitted, LinesTerminated))

C7_Witness ==
    /\ pc = "reading"
    /\ Len(delivered) = 1
    /\ StartsWith(buffer, Marker)
    /\ Len(buffer) > MarkerLen
    /\ wire # <<>>

-----------------------------------------------------------------------------
(* Properties of the stream produced by the pipeline *)

TerminalCount(items) ==
    Cardinality({i \in 1..Len(items) : IsTerminal(items[i])})

\* items[from..to] are events of one stage, running throughout and ending in
\* status `last`
StageGroup(items, from, to, stage, last) ==
    /\ from <= to
    /\ \A i \in from..to :
          /\ items[i].stage = stage
          /\ items[i].status = IF i = to THEN last ELSE "running"

Rank(status) ==
    CASE status = "pending" -> 0 [] status = "running" -> 1
      [] status = "completed" -> 2 [] status = "error" -> 2

\* C8: when the analyze stage fails, the stream carries research events
\* ending in completed, then analyze events ending in error, and nothing
\* else: the driver stays in error, no TerminalEvent and no payload is
\* emitted, and the call on that stream rejects.
C8_AnalyzeFailure ==
    stageStatus["analyze"] = "error" =>
        /\ driver = "error"
        /\ ~HasTerminal(emitted)
        /\ \E k \in 1..(Len(emitted) - 1) :
              /\ StageGroup(emitted, 1, k, "research", "completed")
              /\ StageGroup(emitted, k + 1, Len(emitted), "analyze", "error")
        /\ ~Truthy(finalResult)
        /\ pc = "settled" => outcome.kind = "rejected"
        /\ NormalEnd => (outcome = Rejected(NoResultError) /\ delivered = emitted)

C8_Witness ==
    /\ stageStatus["analyze"] = "error"
    /\ Len(emitted) >= 5
    /\ NormalEnd
    /\ delivered = emitted
    /\ outcome = Rejected(NoResultError)

\* C9: a stream carries at most one TerminalEvent and nothing follows it; the
\* closed stream of a run that succeeded carries exactly one; a stream that
\* ended with no TerminalEvent is a broken execution, on which the call
\* rejects.
C9_OneTerminalLast ==
    /\ TerminalCount(emitted) <= 1
    /\ \A i \in 1..Len(emitted) : IsTerminal(emitted[i]) => i = Len(emitted)
    /\ connClosed => (TerminalCount(emitted) = 1 <=> driver = "done")
    /\ (NormalEnd /\ ~HasTerminal(emitted)) => outcome = Rejected(NoResultError)
    /\ outcome.kind = "resolved" => TerminalCount(emitted) = 1

C9_Witness ==
    /\ NormalEnd
    /\ connClosed
    /\ TerminalCount(emitted) = 1
    /\ Len(emitted) >= 9
    /\ delivered = emitted
    /\ outcome.kind = "resolved"

\* the statuses of one stage never move backwards along the stream
StreamMonotone(items) ==
    \A i, j \in 1..Len(items) :
        (i < j /\ items[i].stage \in Stages /\ items[i].stage = items[j].stage)
        => /\ Rank(items[i].status) <= Rank(items[j].status)
           /\ items[i].status \in {"completed", "error"}
                 => items[j].status = items[i].status

\* the status the panel shows for a stage never moves backwards
PanelMonotone ==
    \A s \in Stages :
        /\ Rank(ShownStatus(steps, s)) <= Rank(ShownStatus(steps', s))
        /\ ShownStatus(steps, s) \in {"completed", "error"}
              => ShownStatus(steps', s) = ShownStatus(steps, s)

\* C10: per stage, the statuses in the stream, the statuses reported to the
\* callback and the status shown by the progress panel only move forward
\* along pending -> running -> completed | error: a stage that has been
\* running is never pending again, a completed or error stage is never
\* running again.
C10_StatusMonotone ==
    /\ [](StreamMonotone(emitted) /\ StreamMonotone(delivered))
    /\ [][PanelMonotone]_vars

C10_Witness ==
    /\ ShownStatus(steps, "research") = "completed"
    /\ ShownStatus(steps, "analyze") = "running"
    /\ steps["analyze"].iteration > 0
    /\ ShownStatus(steps, "strategize") = "pending"
    /\ ShownStatus(steps, "compile") = "pending"

-----------------------------------------------------------------------------
(* Sequencing of the stages *)

\* position of a stage in STEPS
StepIndex(s) == CHOOSE k \in 1..Len(STEPS) : STEPS[k] = s

\* the progress events of a stream follow the order of STEPS, and a stage has
\* a running event only after the stage before it has a completed event
Sequenced(items) ==
    /\ \A i, j \in 1..Len(items) :
          (i < j /\ items[i].stage \in Stages /\ items[j].stage \in Stages)
          => StepIndex(items[i].stage) <= StepIndex(items[j].stage)
    /\ \A i \in 1..Len(items) :
          (items[i].stage \in Stages /\ items[i].status = "running"
              /\ StepIndex(items[i].stage) > 1)
          => \E j \in 1..(i - 1) :
                /\ items[j].stage = STEPS[StepIndex(items[i].stage) - 1]
                /\ items[j].status = "completed"

\* C11: the stages run in the order research, analyze, strategize, compile;
\* at most one stage is running at any point, in the pipeline and on the
\* progress panel; no stage has a running event, emitted or reported to the
\* callback, before the stage before it has a completed event.
C11_StrictSequencing ==
    /\ Cardinality({s \in Stages : stageStatus[s] = "running"}) <= 1
    /\ Cardinality({s \in Stages : ShownStatus(steps, s) = "running"}) <= 1
    /\ Sequenced(emitted)
    /\ Sequenced(delivered)
    /\ \A k \in 2..Len(STEPS) :
          stageStatus[STEPS[k]] # "pending" => stageStatus[STEPS[k - 1]] = "completed"

C11_Witness ==
    /\ stageStatus["strategize"] = "running"
    /\ stageStatus["analyze"] = "completed"
    /\ ShownStatus(steps, "strategize") = "running"
    /\ ShownStatus(steps, "research") = "completed"
    /\ delivered = emitted

-----------------------------------------------------------------------------
(* Closing of the connection *)

ErrorCount(items) ==
    Cardinality({i \in 1..Len(items) : items[i].status = "error"})

\* C12: the connection is closed only after the frame of the TerminalEvent
\* has been written, unless the pipeline failed first: then the last frame
\* written is the one ProgressEvent with status error, of the stage that was
\* active, and the connection is closed with no TerminalEvent.
C12_ClosureProtocol ==
    connClosed =>
        /\ emitted # <<>>
        /\ ~truncated => received \o wire = EncodeStream(emitted)
        /\ \/ /\ driver = "done"
              /\ IsTerminal(emitted[Len(emitted)])
              /\ ErrorCount(emitted) = 0
           \/ /\ driver = "error"
              /\ ~HasTerminal(emitted)
              /\ ErrorCount(emitted) = 1
              /\ emitted[Len(emitted)].status = "error"
              /\ stageStatus[emitted[Len(emitted)].stage] = "error"
              /\ Len(emitted) > 1
              /\ emitted[Len(emitted) - 1].stage = emitted[Len(emitted)].stage
              /\ emitted[Len(emitted) - 1].status = "running"

C12_Witness ==
    /\ connClosed
    /\ driver = "error"
    /\ stageStatus["strategize"] = "error"
    /\ emitted[Len(emitted)] = ProgressEvent("strategize", "error", 0, 0)
    /\ wire = <<>>
    /\ pc = "settled"

-----------------------------------------------------------------------------
(* A run in which every stage succeeds *)

\* four groups of progress events in the order of STEPS, each ending with
\* status completed, followed by exactly one TerminalEvent
SuccessStream(items) ==
    \E k1, k2, k3 \in 1..Len(items) :
        /\ StageGroup(items, 1, k1, STEPS[1], "completed")
        /\ StageGroup(items, k1 + 1, k2, STEPS[2], "completed")
        /\ StageGroup(items, k2 + 1, k3, STEPS[3], "completed")
        /\ StageGroup(items, k3 + 1, Len(items) - 1, STEPS[4], "completed")
        /\ IsTerminal(items[Len(items)])

\* C13: when the four stages of a request all succeed, the stream is four
\* groups of progress events in the order research, analyze, strategize,
\* compile, each group ending with status completed, then exactly one
\* TerminalEvent; the callback receives exactly these events and
\* streamResearch resolves with the result of the TerminalEvent.
C13_EndToEndSuccess ==
    driver = "done" =>
        /\ SuccessStream(emitted)
        /\ TerminalCount(emitted) = 1
        /\ NormalEnd =>
              /\ delivered = emitted
              /\ outcome = Resolved(emitted[Len(emitted)].result)
              /\ \A s \in Stages : ShownStatus(steps, s) = "completed"

C13_Witness ==
    /\ driver = "done"
    /\ NormalEnd
    /\ Len(emitted) = 2 * Len(STEPS) + MaxTicks + 1
    /\ outcome = Resolved(R2)
    /\ finalResult = R2

-----------------------------------------------------------------------------
(* The screens: App, ResearchInputScreen, ResearchResultsScreen *)

\* texts the user may type into the query field
Queries == {<<>>, <<" ">>, <<"q">>, <<" ", "q", " ">>}

ValidationError == "Please enter a research query"
DefaultError == "Failed to execute research. Please try again."
Detail == "detail of the response"
\* ResearchResultsScreen, lines 196-212: titles of the accordion panels
Sections == {"Market Analysis", "Competitor Analysis"}

\* the check made on the untrimmed text
QueryMissingUntrimmed(q) == q = <<>>

\* ResearchInputScreen, line 69: !query.trim()
QueryMissing(q) == Trim(q) = <<>>

\* line 262: disabled={loading || !query.trim()}
SubmitDisabled == loading \/ QueryMissing(query)

\* lines 78-86: the executeResearch call made for a query
Request(q) == [query |-> Trim(q), state |-> "pending", live |-> TRUE]

\* the detail shown as it is, with nothing in its place when it is missing
ErrorMessageDetailOnly(detail) == IF detail \in {Undefined, ""} THEN Null ELSE detail

\* line 89: err.response?.data?.detail || 'Failed to execute research...'
ErrorMessage(detail) == IF detail \in {Undefined, ""} THEN DefaultError ELSE detail

Pending(i) == i \in 1..Len(requests) /\ requests[i].state = "pending"

\* lines 66-86: handleSubmit up to the await
handleSubmit ==
    /\ currentScreen = "input"
    /\ submits < MaxSubmits
    /\ submits' = submits + 1
    /\ IF QueryMissing(query)
       THEN /\ error' = ValidationError
            /\ UNCHANGED <<loading, requests>>
       ELSE /\ loading' = TRUE
            /\ error' = Null
            /\ requests' = Append(requests, Request(query))
    /\ UNCHANGED <<query, appVars, resultsVars, streamVars, second, rendered>>

\* lines 256-267: the submit button is clicked
ClickSubmit ==
    /\ ~SubmitDisabled
    /\ handleSubmit

\* line 131: a submit event reaches the form without the button
SubmitEvent == handleSubmit

\* line 140: the user edits the query
SetQuery(v) ==
    /\ currentScreen = "input"
    /\ v # query
    /\ query' = v
    /\ UNCHANGED <<loading, error, submits, requests, appVars, resultsVars,
                   streamVars, second, rendered>>

\* line 248: the error alert is closed
CloseAlert ==
    /\ currentScreen = "input"
    /\ error # Null
    /\ error' = Null
    /\ UNCHANGED <<query, loading, submits, requests, appVars, resultsVars,
                   streamVars, second, rendered>>

\* App, lines 41-49
handleResearchComplete(results) ==
    /\ researchResults' = results
    /\ currentScreen' = "results"
    /\ snackbar' = [open |-> TRUE,
                    message |-> "Research completed successfully!",
                    severity |-> "success"]

\* ResearchInputScreen, lines 86-87 and 90-92: executeResearch resolved. The
\* results screen replaces the input screen, whose state is gone: the next
\* input screen starts from the initial values of lines 32-40, and what the
\* calls still pending set later goes nowhere.
ExecuteResolves(i, result) ==
    /\ Pending(i)
    /\ requests' = [j \in 1..Len(requests) |->
                       [requests[j] EXCEPT
                           !.state = IF j = i THEN "resolved" ELSE @,
                           !.live = FALSE]]
    /\ handleResearchComplete(result)
    /\ query' = <<>>
    /\ loading' = FALSE
    /\ error' = Null
    /\ UNCHANGED <<submits, backendStatus, healthCheck, resultsVars,
                   streamVars, second, rendered>>

\* the rejection handled without the finally block of lines 90-92
ExecuteRejectsKeepsLoading(i, detail) ==
    /\ Pending(i)
    /\ requests' = [requests EXCEPT ![i].state = "rejected"]
    /\ IF requests[i].live
       THEN /\ error' = ErrorMessage(detail)
            /\ UNCHANGED loading
       ELSE UNCHANGED <<error, loading>>
    /\ UNCHANGED <<query, submits, appVars, resultsVars, streamVars, second,
                   rendered>>

\* lines 88-92: executeResearch rejected
ExecuteRejects(i, detail) ==
    /\ Pending(i)
    /\ requests' = [requests EXCEPT ![i].state = "rejected"]
    /\ IF requests[i].live
       THEN /\ error' = ErrorMessage(detail)
            /\ loading' = FALSE
       ELSE UNCHANGED <<error, loading>>
    /\ UNCHANGED <<query, submits, appVars, resultsVars, streamVars, second,
                   rendered>>

\* App, lines 51-54 (the results screen is left, its state is gone)
handleNewResearch ==
    /\ currentScreen = "results"
    /\ currentScreen' = "input"
    /\ researchResults' = Null
    /\ expandedSection' = NoSection
    /\ UNCHANGED <<inputVars, snackbar, backendStatus, healthCheck, downloaded,
                   streamVars, second, rendered>>

\* App, lines 56-58
handleCloseSnackbar ==
    /\ snackbar.open
    /\ snackbar' = [snackbar EXCEPT !.open = FALSE]
    /\ UNCHANGED <<inputVars, currentScreen, researchResults, backendStatus,
                   healthCheck, resultsVars, streamVars, second, rendered>>

\* App, lines 20-30: the health check answered
HealthResolves(status) ==
    /\ healthCheck = "pending"
    /\ healthCheck' = "settled"
    /\ IF status = "healthy"
       THEN /\ backendStatus' = "connected"
            /\ snackbar' = [open |-> TRUE,
                            message |-> "Connected to AI backend successfully",
                            severity |-> "success"]
       ELSE UNCHANGED <<backendStatus, snackbar>>
    /\ UNCHANGED <<inputVars, currentScreen, researchResults, resultsVars,
                   streamVars, second, rendered>>

\* App, lines 31-38: the health check failed
HealthRejects ==
    /\ healthCheck = "pending"
    /\ healthCheck' = "settled"
    /\ backendStatus' = "disconnected"
    /\ snackbar' = [open |-> TRUE,
                    message |-> "Backend not available. Please start the API server.",
                    severity |-> "warning"]
    /\ UNCHANGED <<inputVars, currentScreen, researchResults, resultsVars,
                   streamVars, second, rendered>>

\* ResearchResultsScreen, lines 37-39
handleAccordionChange(panel, isExpanded) ==
    /\ currentScreen = "results"
    /\ expandedSection' = IF isExpanded THEN panel ELSE NoSection
    /\ UNCHANGED <<inputVars, appVars, downloaded, streamVars, second, rendered>>

\* line 42: JSON.stringify(results, null, 2)
Stringify(results) == <<"{", LF, " ", " ", ResultChar(results), LF, "}">>

\* the download writes into the payload it was given
handleDownloadInPlace ==
    /\ currentScreen = "results"
    /\ downloaded' = Stringify(researchResults)
    /\ researchResults' = CHOOSE p \in Payloads : p # researchResults
    /\ UNCHANGED <<inputVars, currentScreen, snackbar, backendStatus,
                   healthCheck, expandedSection, streamVars, second, rendered>>

\* ResearchResultsScreen, lines 41-52
handleDownload ==
    /\ currentScreen = "results"
    /\ downloaded' = Stringify(researchResults)
    /\ UNCHANGED <<inputVars, appVars, expandedSection, streamVars, second,
                   rendered>>

\* what the user and the backend can do with the application
NextUI ==
    \/ \E v \in Queries : SetQuery(v)
    \/ ClickSubmit
    \/ CloseAlert
    \/ \E i \in 1..Len(requests) : \E result \in Payloads : ExecuteResolves(i, result)
    \/ \E i \in 1..Len(requests) : \E detail \in {Undefined, "", Detail} :
          ExecuteRejects(i, detail)
    \/ handleNewResearch
    \/ handleCloseSnackbar
    \/ \E status \in {"healthy", "degraded"} : HealthResolves(status)
    \/ HealthRejects
    \/ \E panel \in Sections : \E isExpanded \in BOOLEAN :
          handleAccordionChange(panel, isExpanded)
    \/ handleDownload

InitScreens ==
    /\ emitted = <<>>
    /\ wire = <<>>
    /\ connClosed = FALSE
    /\ truncated = FALSE
    /\ driver = "pending"
    /\ stageStatus = [s \in Stages |-> "pending"]
    /\ ticks = 0
    /\ responseOk = TRUE
    /\ onProgress = "ok"
    /\ InitClientState
    /\ InitOther

SpecUI == InitScreens /\ [][NextUI]_vars

\* the same, with submit events that do not come from the button
NextForm ==
    \/ NextUI
    \/ SubmitEvent

SpecForm == InitScreens /\ [][NextForm]_vars

-----------------------------------------------------------------------------
(* Properties of the screens *)

\* a text that is empty or holds only whitespace
Blank(q) == \A i \in 1..Len(q) : q[i] \in Whitespace

LivePending ==
    \E i \in 1..Len(requests) : requests[i].state = "pending" /\ requests[i].live

\* C14: a submission whose query is empty or only whitespace is rejected
\* before any request is sent: handleSubmit sets the validation error, leaves
\* loading as it was (false unless an earlier request is still being
\* executed), makes no executeResearch call and touches nothing of the
\* stream, so no request is ever made for a blank query.
C14_BlankQueryRejected ==
    /\ [](\A i \in 1..Len(requests) : ~Blank(requests[i].query))
    /\ [](loading => LivePending)
    /\ [][(submits' # submits /\ Blank(query))
           => /\ error' = ValidationError
              /\ loading' = loading
              /\ requests' = requests
              /\ UNCHANGED <<streamVars, appVars>>]_vars
    /\ [][requests' # requests /\ Len(requests') > Len(requests)
           => ~Blank(query) /\ submits' # submits]_vars

C14_Witness ==
    /\ error = ValidationError
    /\ query = <<" ">>
    /\ submits = 1
    /\ requests = <<>>
    /\ ~loading
    /\ currentScreen = "input"
    /\ pc = "fetch"

\* TracePanel, lines 25-36: the indicator of a status
statusIcon(status) ==
    CASE status = "running" -> "CircularProgress"
      [] status = "completed" -> "CheckCircleIcon"
      [] status = "error" -> "ErrorIcon"
      [] OTHER -> "PendingIcon"

\* lines 38-49: the background of a row
statusColor(status) ==
    CASE status = "running" -> "#e3f2fd"
      [] status = "completed" -> "#e8f5e9"
      [] status = "error" -> "#ffebee"
      [] OTHER -> "transparent"

\* the three states of a research request as the user sees them
StillRunning == loading
Failed == error # Null
Succeeded == currentScreen = "results"

\* request i settles in this step
Settles(i, state) == Pending(i) /\ requests'[i].state = state

\* C15: of 'still running', 'failed' and 'succeeded' at most one holds at any
\* moment, and exactly one while a request is being executed and when it
\* settles: loading and a displayed error are never both set, the results
\* screen is shown only after a request succeeded and then holds its payload,
\* a request that fails ends with an error displayed and loading cleared, and
\* the statuses running, completed, error and pending have four distinct
\* indicators in the progress panel.
C15_OneOfRunningFailedSucceeded ==
    /\ [](~(StillRunning /\ Failed) /\ ~(StillRunning /\ Succeeded)
             /\ ~(Failed /\ Succeeded))
    /\ [](LivePending => StillRunning)
    /\ [](Succeeded =>
             /\ researchResults \in Payloads
             /\ \E i \in 1..Len(requests) : requests[i].state = "resolved")
    /\ [][\A i \in 1..Len(requests) :
             /\ Settles(i, "rejected") => (Failed' /\ ~StillRunning' /\ ~Succeeded')
             /\ Settles(i, "resolved")
                   => (Succeeded' /\ ~StillRunning' /\ ~Failed'
                       /\ researchResults' \in Payloads)]_vars
    /\ [](\A a, b \in Statuses : a # b => statusIcon(a) # statusIcon(b))

C15_Witness ==
    /\ Failed
    /\ error = DefaultError
    /\ ~StillRunning
    /\ ~Succeeded
    /\ submits = 2
    /\ requests[1].state = "resolved"
    /\ requests[2].state = "rejected"

-----------------------------------------------------------------------------
(* Two streamResearch calls at the same time *)

\* one buffer declared outside the function, used by every call
SharedBuffer(own, other) == other

\* lines 276-277: buffer and finalResult are locals of the call
OwnBuffer(own, other) == own

\* the streams of the second call
SecondStreams == {EncodeStream(<<Term2>>), EncodeStream(<<Ev1>>)}

\* lines 280-305 in the second call: one chunk of its own stream
SecondChunk(n) ==
    /\ second.pc = "reading"
    /\ n \in 0..Len(second.wire)
    /\ \E value \in {SubSeq(second.wire, 1, n)} :
       \E lines \in {Split(Appended(OwnBuffer(second.buffer, buffer), value))} :
       \E st \in {ProcessLines(LoopState(second.finalResult, second.delivered,
                                         second.warnings),
                               AllButLast(lines), onProgress)} :
          second' = [second EXCEPT !.wire = Slice(second.wire, n),
                                   !.buffer = Last(lines),
                                   !.finalResult = st.finalResult,
                                   !.delivered = st.delivered,
                                   !.warnings = st.warnings]
    /\ UNCHANGED <<streamVars, rendered, uiVars>>

\* lines 280-281 and 308-311 in the second call
SecondDone ==
    /\ second.pc = "reading"
    /\ LoopBreaks(second.wire = <<>>, second.finalResult)
    /\ second' = [second EXCEPT !.outcome = Settle(second.finalResult),
                                !.pc = "settled"]
    /\ UNCHANGED <<streamVars, rendered, uiVars>>

InitPair ==
    /\ emitted \in SeqsUpTo(ClientItems, MaxPairFrames)
    /\ wire = EncodeStream(emitted)
    /\ connClosed = TRUE
    /\ truncated = FALSE
    /\ driver = "done"
    /\ stageStatus = [s \in Stages |-> "completed"]
    /\ ticks = 0
    /\ responseOk = TRUE
    /\ onProgress = "ok"
    /\ InitClientState
    /\ InitUI
    /\ second \in {Call(stream, "reading") : stream \in SecondStreams}
    /\ rendered = RenderedNothing

NextPair ==
    \/ FetchOk
    \/ \E n \in 0..Len(wire) : ReadChunk(n)
    \/ ReadDone
    \/ \E n \in 0..Len(second.wire) : SecondChunk(n)
    \/ SecondDone

SpecPair == InitPair /\ [][NextPair]_vars

\* C16: two streamResearch calls whose chunks interleave in any order share
\* no state: a step of one call leaves the buffer, the result, the callback
\* sequence and the outcome of the other untouched, and each call reports
\* the events and settles with the outcome it has when it runs alone on its
\* stream.
C16_CallsIndependent ==
    /\ [](pc = "settled" =>
             /\ delivered = WholeRun(EncodeStream(emitted), onProgress).delivered
             /\ outcome = WholeRun(EncodeStream(emitted), onProgress).outcome)
    /\ [](second.pc = "settled" =>
             /\ second.delivered = WholeRun(second.body, onProgress).delivered
             /\ second.outcome = WholeRun(second.body, onProgress).outcome)
    /\ [][second' # second => UNCHANGED clientVars]_vars
    /\ [][clientVars' # clientVars => second' = second]_vars

\* both calls settled, each with the outcome of its own stream
C16_Witness ==
    /\ pc = "settled"
    /\ second.pc = "settled"
    /\ outcome = Resolved(R1)
    /\ second.outcome = Rejected(NoResultError)
    /\ second.delivered = <<Ev1>>
    /\ delivered = <<Term1>>

-----------------------------------------------------------------------------
(* Waiting for data *)

\* the call settles in this step
SettlesNow == pc # "settled" /\ pc' = "settled"

\* C17: streamResearch has no read timeout of its own: as long as the
\* connection is open and nothing arrives the promise stays pending, and it
\* settles only on a response that is not OK, on a failure of reader.read(),
\* or when the connection has ended and everything sent has been read.
C17_NoReadTimeout ==
    /\ [](pc # "settled" => outcome = NoOutcome)
    /\ [][SettlesNow =>
             \/ pc = "fetch" /\ ~responseOk /\ outcome'.kind = "rejected"
             \/ pc = "reading" /\ outcome' = Rejected(ReadFailure)
             \/ pc = "reading" /\ connClosed /\ wire = <<>>]_vars
    /\ [][(pc = "reading" /\ ~connClosed /\ wire = <<>> /\ outcome' # outcome)
             => outcome' = Rejected(ReadFailure)]_vars

\* the call waits on an open connection that has nothing to deliver
C17_Witness ==
    /\ pc = "reading"
    /\ ~connClosed
    /\ wire = <<>>
    /\ received # <<>>
    /\ driver = "analyze"
    /\ stageStatus["analyze"] = "running"
    /\ outcome = NoOutcome

-----------------------------------------------------------------------------
(* The payload held for the results screen *)

\* C18: the payload handed to the user interface is never changed while it
\* is held: the results screen shows it, and expanding a section or
\* downloading the report (whose content is the payload) leaves it as it
\* is; the only step that changes the held payload is the start of a new
\* research, which discards it and returns to the input screen.
C18_PayloadNeverMutated ==
    /\ [](currentScreen = "results" => researchResults \in Payloads)
    /\ [][researchResults # Null =>
             \/ researchResults' = researchResults
             \/ /\ researchResults' = Null
                /\ currentScreen = "results"
                /\ currentScreen' = "input"]_vars
    /\ [][(currentScreen' = "results"
              /\ (expandedSection' # expandedSection \/ downloaded' # downloaded))
             => /\ researchResults' = researchResults
                /\ currentScreen = "results"]_vars
    /\ [][downloaded' # downloaded => downloaded' = Stringify(researchResults')]_vars
    /\ [][(currentScreen = "results" /\ currentScreen' = "input")
             => researchResults' = Null]_vars

C18_Witness ==
    /\ currentScreen = "results"
    /\ researchResults = R2
    /\ expandedSection = "Market Analysis"
    /\ downloaded = Stringify(R2)
    /\ submits = 2
    /\ requests[1].state = "resolved"
    /\ requests[2].state = "resolved"

-----------------------------------------------------------------------------
(* The progress panel: TracePanel *)

\* lines 18-23: the description of a step
Description(key) ==
    CASE key = "research" -> "Gathering data via web search"
      [] key = "analyze" -> "Analyzing gathered data"
      [] key = "strategize" -> "Generating recommendations"
      [] key = "compile" -> "Building final report"

\* every row drawn from the entry of the first step
StepDataOfFirst(st, key) == st[STEPS[1]]

\* line 97: steps[step.key] || {}
StepData(st, key) == st[key]

\* lines 99-100: stepData.iteration || 0
OrZero(v) == IF v = NoNumber THEN 0 ELSE v

\* Math.round of num / den, both non-negative, den positive
Round(num, den) == (2 * num + den) \div (2 * den)

Min(a, b) == IF a <= b THEN a ELSE b

\* the percentage without the cap of Math.min
ProgressUncapped(iteration, maxIterations) ==
    IF maxIterations > 0
    THEN Round(iteration * 100, maxIterations)
    ELSE 0

\* lines 101-103
Progress(iteration, maxIterations) ==
    IF maxIterations > 0
    THEN Min(100, Round(iteration * 100, maxIterations))
    ELSE 0

\* lines 123-132: text of the caption
Caption(key, status, iteration) ==
    IF status = "running" THEN Description(key)
    ELSE IF status = "completed" THEN "Done"
    ELSE IF status = "error" THEN "Failed"
    ELSE "Waiting"

\* lines 124-126: the (iteration/maxIterations) suffix of the caption
Ratio(status, iteration, maxIterations) ==
    IF status = "running" /\ iteration > 0
    THEN <<iteration, maxIterations>>
    ELSE <<>>

\* lines 136-139: value of the determinate progress bar, if one is rendered
Bar(status, maxIterations, progress) ==
    IF status = "running" /\ maxIterations > 0 THEN progress ELSE NoNumber

\* lines 96-154: the row of one step
Row(st, key) ==
    LET stepData == StepData(st, key)
        status == IF stepData.status = Undefined THEN "pending" ELSE stepData.status
        iteration == OrZero(stepData.iteration)
        maxIterations == OrZero(stepData.maxIterations)
        progress == Progress(iteration, maxIterations)
    IN [status |-> status, iteration |-> iteration,
        maxIterations |-> maxIterations, progress |-> progress,
        icon |-> statusIcon(status), color |-> statusColor(status),
        caption |-> Caption(key, status, iteration),
        ratio |-> Ratio(status, iteration, maxIterations),
        bar |-> Bar(status, maxIterations, progress)]

\* lines 51-159
RenderPanel(st, isActive, minimized) ==
    IF ~isActive THEN RenderedNothing
    ELSE [visible |-> TRUE, minimized |-> minimized,
          rows |-> IF minimized THEN NoRows ELSE [s \in Stages |-> Row(st, s)]]

\* React renders the panel
Render(isActive, minimized) ==
    /\ rendered' = RenderPanel(steps, isActive, minimized)
    /\ rendered' # rendered
    /\ UNCHANGED <<emitted, wire, connClosed, truncated, serverVars, responseOk,
                   onProgress, clientVars, second, uiVars>>

\* the entries a step may have in the panel state
PanelEntries(key) ==
    {EmptyObject} \cup
    {ProgressEvent(key, status, iteration, maxIterations) :
        status \in Statuses, iteration \in 0..MaxPanelIter,
        maxIterations \in 0..MaxPanelIter}

\* the entries of a second step
OtherEntries(key) ==
    {EmptyObject} \cup
    {ProgressEvent(key, status, iteration, MaxPanelIter) :
        status \in Statuses, iteration \in {0, 1}}

\* panel states in which at most two steps have an entry
PanelStates ==
    UNION {{[[NoSteps EXCEPT ![t] = f] EXCEPT ![s] = e] :
               e \in PanelEntries(s), f \in OtherEntries(t)} :
           s \in Stages, t \in Stages}

InitPanel ==
    /\ emitted = <<>>
    /\ wire = <<>>
    /\ connClosed = FALSE
    /\ truncated = FALSE
    /\ driver = "pending"
    /\ stageStatus = [s \in Stages |-> "pending"]
    /\ ticks = 0
    /\ responseOk = TRUE
    /\ onProgress = "ok"
    /\ pc = "reading"
    /\ buffer = <<>>
    /\ finalResult = Null
    /\ delivered = <<>>
    /\ warnings = 0
    /\ received = <<>>
    /\ linesSeen = <<>>
    /\ outcome = NoOutcome
    /\ steps \in PanelStates
    /\ InitOther

NextPanel == \E isActive, minimized \in BOOLEAN : Render(isActive, minimized)

SpecPanel == InitPanel /\ [][NextPanel]_vars

-----------------------------------------------------------------------------
(* Properties of the progress panel *)

Shown == rendered.visible /\ ~rendered.minimized

\* C19: the panel state maps each stage to its current ProgressEvent, and
\* the panel renders each of the four stages from the entry of that stage
\* only: status, iteration and maxIterations of the row are those of the
\* entry, whatever the other entries are, and a stage that has no entry is
\* rendered as pending with iteration 0 and maxIterations 0.
C19_RowsFromOwnEntry ==
    Shown =>
        \A s \in Stages :
            /\ DOMAIN rendered.rows = Stages
            /\ steps[s] = EmptyObject =>
                  /\ rendered.rows[s].status = "pending"
                  /\ rendered.rows[s].iteration = 0
                  /\ rendered.rows[s].maxIterations = 0
                  /\ rendered.rows[s].icon = "PendingIcon"
                  /\ rendered.rows[s].caption = "Waiting"
                  /\ rendered.rows[s].ratio = <<>>
                  /\ rendered.rows[s].bar = NoNumber
            /\ steps[s] # EmptyObject =>
                  /\ rendered.rows[s].status = steps[s].status
                  /\ rendered.rows[s].iteration = steps[s].iteration
                  /\ rendered.rows[s].maxIterations = steps[s].maxIterations
            /\ rendered.rows[s] = RenderPanel([NoSteps EXCEPT ![s] = steps[s]],
                                              TRUE, FALSE).rows[s]

\* one stage running with an entry, another without, a third completed
C19_Witness ==
    /\ Shown
    /\ steps["research"] = ProgressEvent("research", "completed", 0, 0)
    /\ steps["analyze"] = ProgressEvent("analyze", "running", 1, MaxPanelIter)
    /\ steps["strategize"] = EmptyObject
    /\ rendered.rows["research"].status = "completed"
    /\ rendered.rows["analyze"].status = "running"
    /\ rendered.rows["analyze"].iteration = 1
    /\ rendered.rows["strategize"].status = "pending"
    /\ rendered.rows["strategize"].maxIterations = 0

\* C20: when a running stage reports maxIterations = 0 and iteration > 0,
\* the panel treats its progress as unknown: the row of that stage has no
\* determinate progress bar and no iteration/maxIterations ratio.
C20_UnknownProgress ==
    Shown =>
        \A s \in Stages :
            (steps[s].status = "running" /\ steps[s].maxIterations = 0
                /\ steps[s].iteration > 0)
            => /\ rendered.rows[s].bar = NoNumber
               /\ rendered.rows[s].ratio = <<>>

\* the part of C20 the panel keeps: no determinate bar for such a stage
C20_NoBar ==
    Shown =>
        \A s \in Stages :
            (steps[s].status = "running" /\ steps[s].maxIterations = 0
                /\ steps[s].iteration > 0)
            => rendered.rows[s].bar = NoNumber

-----------------------------------------------------------------------------
(* Client specification with comment lines, empty results and any callback *)

\* a comment line of the event stream format: it does not start with the marker
Comment == [EmptyObject EXCEPT !.status = "comment"]
CommentText == <<":", "k">>

\* a frame with status done and no result
DoneNull == DoneEvent(Null)

WideItems == {Ev1, Term1, Term2, DoneNull, Comment, Malformed, JSONNull}

WideFrame(item) ==
    IF item = Comment THEN CommentText \o <<LF, LF>>
    ELSE IF item = JSONNull THEN Marker \o <<" ">> \o NullText \o <<LF, LF>>
    ELSE EncodeFrame(item)

RECURSIVE EncodeWide(_)
EncodeWide(items) ==
    IF items = <<>> THEN <<>>
    ELSE WideFrame(Head(items)) \o EncodeWide(Tail(items))

InitWide ==
    /\ emitted \in SeqsUpTo(WideItems, MaxWideFrames)
    /\ wire = EncodeWide(emitted)
    /\ connClosed = TRUE
    /\ truncated = FALSE
    /\ driver = "done"
    /\ stageStatus = [s \in Stages |-> "completed"]
    /\ ticks = 0
    /\ responseOk \in BOOLEAN
    /\ onProgress \in CallbackModes
    /\ InitClientState
    /\ InitOther

NextWide ==
    \/ FetchOk
    \/ FetchNotOk
    \/ \E n \in 0..Len(wire) : ReadChunk(n)
    \/ ReadDone
    \/ ReadError
    \/ Truncate

SpecWide == InitWide /\ [][NextWide]_vars

\* the items of a stream whose data line JSON.parse accepts
RECURSIVE ParsesOk(_)
ParsesOk(items) ==
    IF items = <<>> THEN <<>>
    ELSE IF Head(items) \in {Malformed, Comment} THEN ParsesOk(Tail(items))
    ELSE <<Head(items)>> \o ParsesOk(Tail(items))

\* those of them that are not the value null
RECURSIVE Parsed(_)
Parsed(items) ==
    IF items = <<>> THEN <<>>
    ELSE IF Head(items) \in {Malformed, Comment, JSONNull} THEN Parsed(Tail(items))
    ELSE <<Head(items)>> \o Parsed(Tail(items))

\* the whole body was read and the reader reported done
ReadToEnd == NormalEnd /\ ~truncated

\* C21 as stated: every data frame that JSON.parse accepts is passed to the
\* progress callback exactly once; lines without the marker never are.
C21_AsStated ==
    /\ \A i \in 1..Len(delivered) : delivered[i] \notin {Comment, Malformed}
    /\ (ReadToEnd /\ onProgress # "absent") => delivered = ParsesOk(emitted)

\* C21: every data frame that parses to a value other than null, the
\* TerminalEvent frame and the frames after it included, is passed to the
\* progress callback exactly once and in order; a frame that parses to null,
\* comment lines, the blank lines that end a frame and frames that do not
\* parse never reach the callback.
C21_EachParsedFrameOnce ==
    /\ \A i \in 1..Len(delivered) :
          delivered[i] \notin {Comment, Malformed, SyntaxError, EmptyObject, JSONNull}
    /\ onProgress # "absent" => IsPrefix(delivered, Parsed(emitted))
    /\ (ReadToEnd /\ onProgress # "absent") => delivered = Parsed(emitted)
    /\ onProgress = "absent" => delivered = <<>>

C21_Witness ==
    /\ ReadToEnd
    /\ onProgress = "ok"
    /\ emitted = <<Term1, Ev1>>
    /\ delivered = <<Term1, Ev1>>
    /\ warnings = 0
    /\ outcome = Resolved(R1)

-----------------------------------------------------------------------------
(* The end of the connection *)

\* C22: when the connection ends, what is still in the buffer, a last line
\* that no newline ended, is dropped without being parsed: the callback has
\* received the events of the newline-terminated data lines only, and a
\* TerminalEvent on an unterminated last line does not count, so the call
\* rejects unless an earlier line carried one.
C22_UnterminatedLineDiscarded ==
    NormalEnd =>
        /\ received = JoinLines(linesSeen) \o buffer
        /\ ~HasNewline(buffer)
        /\ delivered = ValidEvents(First(emitted, LinesTerminated))
        /\ HasTerminal(First(emitted, LinesTerminated)) => outcome.kind = "resolved"
        /\ ~HasTerminal(First(emitted, LinesTerminated))
              => outcome = Rejected(NoResultError)

\* the body ended right before the newline of the TerminalEvent line
C22_Witness ==
    /\ NormalEnd
    /\ truncated
    /\ Len(emitted) = 2
    /\ emitted[2] = Term1
    /\ IsProgress(emitted[1])
    /\ buffer = Marker \o <<" ">> \o Serialize(Term1)
    /\ delivered = <<emitted[1]>>
    /\ outcome = Rejected(NoResultError)

-----------------------------------------------------------------------------
(* The result the call resolves with *)

\* result of the last frame with status done that carries a payload
RECURSIVE LastResult(_)
LastResult(items) ==
    IF items = <<>> THEN Null
    ELSE LET e == items[Len(items)] IN
         IF e.status = "done" /\ e.result \in Payloads THEN e.result
         ELSE LastResult(SubSeq(items, 1, Len(items) - 1))

\* C23: the call resolves with the result of the most recent frame with
\* status done and a truthy result: a done frame without a result leaves the
\* remembered result as it is and does not make the call resolve, and a later
\* done frame with a result replaces an earlier one.
C23_LastTruthyDoneWins ==
    ReadToEnd =>
        /\ finalResult = LastResult(emitted)
        /\ LastResult(emitted) # Null => outcome = Resolved(LastResult(emitted))
        /\ LastResult(emitted) = Null => outcome = Rejected(NoResultError)

C23_Witness ==
    /\ ReadToEnd
    /\ emitted = <<Term2, DoneNull>>
    /\ finalResult = R2
    /\ outcome = Resolved(R2)
    /\ onProgress = "ok"
    /\ delivered = emitted

-----------------------------------------------------------------------------
(* A progress callback that throws *)

\* frames of a stream on which the try block of the loop throws by itself
Unparsable(items) ==
    Cardinality({i \in 1..Len(items) : items[i] \in {Malformed, JSONNull}})

\* C24: an exception thrown by the progress callback does not abort the
\* stream: it is caught and logged like a parse failure, the frames after it
\* are still decoded and passed to the callback, and the result of a
\* TerminalEvent is remembered before the callback is invoked for it, so the
\* call still resolves with it.
C24_ThrowingCallbackCaught ==
    onProgress = "throws" =>
        /\ IsPrefix(delivered, Parsed(emitted))
        /\ warnings >= Len(delivered)
        /\ pc = "settled" =>
              outcome \in {Rejected(ErrorBody), Rejected(StatusMessage),
                           Rejected(ReadFailure), Rejected(NoResultError)}
                          \cup {Resolved(r) : r \in Payloads}
        /\ ReadToEnd =>
              /\ delivered = Parsed(emitted)
              /\ warnings = Len(delivered) + Unparsable(emitted)
              /\ finalResult = LastResult(emitted)
              /\ LastResult(emitted) # Null
                    => outcome = Resolved(LastResult(emitted))

C24_Witness ==
    /\ onProgress = "throws"
    /\ ReadToEnd
    /\ emitted = <<Term1, Ev1>>
    /\ delivered = <<Term1, Ev1>>
    /\ warnings = 2
    /\ outcome = Resolved(R1)

-----------------------------------------------------------------------------
(* A response that is not OK *)

\* C25: when the streaming endpoint answers with a status that is not OK,
\* streamResearch rejects with an error that carries the body of the
\* response, or the status code when the body is empty, without reading the
\* body as a stream, and the progress callback is never invoked.
C25_NotOkRejects ==
    ~responseOk =>
        /\ pc \in {"fetch", "settled"}
        /\ pc = "fetch" => outcome = NoOutcome
        /\ pc = "settled" =>
              outcome \in {Rejected(ErrorBody), Rejected(StatusMessage)}
        /\ received = <<>>
        /\ linesSeen = <<>>
        /\ buffer = <<>>
        /\ delivered = <<>>
        /\ warnings = 0
        /\ finalResult = Null

C25_Witness ==
    /\ ~responseOk
    /\ pc = "settled"
    /\ outcome = Rejected(StatusMessage)
    /\ Len(emitted) = MaxFrames
    /\ HasTerminal(emitted)
    /\ delivered = <<>>

-----------------------------------------------------------------------------
(* App alone: its handlers called with any argument *)

\* what onResearchComplete may be called with (ResearchInputScreen, line 87:
\* the data of the response, whatever it is)
ResultValues == Payloads \cup {Null}

\* App, lines 41-49, called by the input screen, which is then replaced
CompleteCall(results) ==
    /\ handleResearchComplete(results)
    /\ query' = <<>>
    /\ loading' = FALSE
    /\ error' = Null
    /\ UNCHANGED <<submits, requests, backendStatus, healthCheck, resultsVars,
                   streamVars, second, rendered>>

\* ResearchResultsScreen, lines 159-163: the screen reads the fields of its
\* results prop while it renders, which needs a payload
ResultsRendered == currentScreen = "results" /\ researchResults # Null

NextApp ==
    \/ \E results \in ResultValues : CompleteCall(results)
    \/ handleNewResearch
    \/ handleCloseSnackbar
    \/ \E status \in {"healthy", "degraded"} : HealthResolves(status)
    \/ HealthRejects
    \/ \E v \in Queries : SetQuery(v)
    \/ ResultsRendered /\ handleDownload
    \/ ResultsRendered /\ \E panel \in Sections : \E isExpanded \in BOOLEAN :
                             handleAccordionChange(panel, isExpanded)

SpecApp == InitScreens /\ [][NextApp]_vars

\* C26 as stated: currentScreen is 'results' only if researchResults holds a
\* payload, and currentScreen is 'input' exactly when researchResults is null.
C26_AsStated ==
    /\ currentScreen = "results" => researchResults # Null
    /\ currentScreen = "input" <=> researchResults = Null

\* the part of C26 that App keeps: currentScreen is 'input' only when
\* researchResults is null, and whenever researchResults holds a payload
\* currentScreen is 'results'; handleNewResearch returns to the input screen
\* with the payload dropped.
C26_ScreenAndPayload ==
    /\ [](currentScreen \in {"input", "results"})
    /\ [](currentScreen = "input" => researchResults = Null)
    /\ [](researchResults \in Payloads => currentScreen = "results")
    /\ [][researchResults' # researchResults => currentScreen' # "input"
             \/ researchResults' = Null]_vars
    /\ [][(currentScreen = "results" /\ currentScreen' = "input")
             => researchResults' = Null]_vars
    /\ [][(currentScreen = "input" /\ currentScreen' = "results")
             => researchResults' \in ResultValues /\ snackbar'.open]_vars

\* apiService, lines 206-212 and 250-258: the request made by executeResearch
\* has a timeout, so it does not stay pending for ever
ExecuteSettles ==
    \E i \in 1..Len(requests) :
        \/ \E result \in Payloads : ExecuteResolves(i, result)
        \/ \E detail \in {Undefined, "", Detail} : ExecuteRejects(i, detail)

\* the application with requests that settle
SpecUIFair == InitScreens /\ [][NextUI]_vars /\ WF_vars(ExecuteSettles)

\* C27: the loading flag of the input screen is true exactly while a submitted
\* request is unsettled: submitting a non-blank query sets it and sends one
\* request, every request that is sent is eventually followed by loading being
\* false again, the step that settles it clears the flag, onResearchComplete
\* (the switch to the results screen) happens only in a step that resolves a
\* request, and an error is set only in a step that rejects one, which leaves
\* the screen and the results alone.
C27_LoadingWhilePending ==
    /\ [](loading <=> LivePending)
    /\ [][(~loading /\ loading')
             => /\ ~Blank(query)
                /\ submits' = submits + 1
                /\ requests' = Append(requests, Request(query))
                /\ error' = Null]_vars
    /\ [][(submits' # submits) => loading']_vars
    /\ LivePending ~> ~loading
    /\ [][\A i \in 1..Len(requests) :
             (Settles(i, "resolved") \/ Settles(i, "rejected")) => ~loading']_vars
    /\ [][(loading /\ ~loading')
             => \E i \in 1..Len(requests) :
                   Settles(i, "resolved") \/ Settles(i, "rejected")]_vars
    /\ [][(currentScreen = "input" /\ currentScreen' = "results")
             => \E i \in 1..Len(requests) :
                   /\ Settles(i, "resolved")
                   /\ error' = Null]_vars
    /\ [][(error' # Null /\ error' # error)
             => \E i \in 1..Len(requests) :
                   /\ Settles(i, "rejected")
                   /\ UNCHANGED <<currentScreen, researchResults>>]_vars
    /\ [][\A i \in 1..Len(requests) :
             Settles(i, "rejected") => error' # Null]_vars

\* a request failed and the next one succeeded
C27_Witness ==
    /\ Len(requests) = 2
    /\ requests[1].state = "rejected"
    /\ requests[2].state = "resolved"
    /\ ~loading
    /\ error = Null
    /\ currentScreen = "results"
    /\ researchResults \in Payloads

\* C28 as stated: once the health check has settled, backendStatus has left
\* 'checking' and is 'connected' or 'disconnected'.
C28_AsStated ==
    healthCheck = "settled" => backendStatus \in {"connected", "disconnected"}

\* the part of C28 that checkBackendHealth keeps: backendStatus changes only
\* in the step that settles the health check, to 'connected' with the success
\* message or to 'disconnected' with the warning, and is 'checking' until
\* then.
C28_StatusSetBySettling ==
    /\ [](healthCheck = "pending" => backendStatus = "checking")
    /\ [][backendStatus' # backendStatus
             => /\ healthCheck = "pending" /\ healthCheck' = "settled"
                /\ backendStatus' \in {"connected", "disconnected"}
                /\ snackbar'.open
                /\ snackbar'.severity =
                      IF backendStatus' = "connected" THEN "success"
                                                      ELSE "warning"]_vars

\* C29: the progress percentage computed for the row of a stage is an integer
\* in 0..100 for all non-negative iteration and maxIterations: it is 0 when
\* maxIterations is 0, it is 100 when iteration exceeds maxIterations, and
\* otherwise it is the percent nearest to iteration / maxIterations, that is,
\* no more than half a percent away from it.
C29_ProgressPercentage ==
    Shown =>
        \A s \in Stages :
            LET iteration == OrZero(steps[s].iteration)
                maxIterations == OrZero(steps[s].maxIterations)
                progress == rendered.rows[s].progress
            IN /\ progress \in 0..100
               /\ maxIterations = 0 => progress = 0
               /\ (maxIterations > 0 /\ iteration > maxIterations)
                     => progress = 100
               /\ (maxIterations > 0 /\ iteration <= maxIterations)
                     => /\ 2 * maxIterations * progress - maxIterations
                              <= 200 * iteration
                        /\ 200 * iteration
                              < 2 * maxIterations * progress + maxIterations

\* one stage beyond its maximum, another part of the way, a third without
\* a maximum
C29_Witness ==
    /\ Shown
    /\ steps["research"] = ProgressEvent("research", "running", MaxPanelIter, 2)
    /\ rendered.rows["research"].progress = 100
    /\ steps["analyze"] = ProgressEvent("analyze", "running", 1, MaxPanelIter)
    /\ rendered.rows["analyze"].progress \in 1..99
    /\ steps["strategize"] = EmptyObject
    /\ rendered.rows["strategize"].progress = 0

====
